---- MODULE Spec2Model ----
(***************************************************************************)
(* sidb: a single-file paged key-value store (Open/Close lifecycle, the    *)
(* advisory file lock, the head page and its validation, the KV record     *)
(* codec).                                                                 *)
(*                                                                         *)
(* Spec          several processes Open and Close the same path with the   *)
(*               default compression; every action is the code between two *)
(*               system calls on which processes can interleave (open,     *)
(*               flock, stat/init, mmap).                                  *)
(*               System calls whose error the code tests may fail.         *)
(* SpecSolo      one process, every compression and initial map size.      *)
(* SpecKV        KVPair.Marshal / KVPair.Unmarshal on bounded inputs.      *)
(* SpecValidate  HeadPage.validate on bounded head pages and page bytes.   *)
(***************************************************************************)
EXTENDS Integers, Sequences, FiniteSets, TLC

(***************************************************************************)
(* Bounds of the model.                                                    *)
(***************************************************************************)
NumProcs == 2          \* processes that open the file
MaxLeaks == 1          \* descriptors / mappings that may be left dangling at once
MaxKeyLen == 3         \* longest key of SpecKV
MaxValLen == 3         \* longest value of SpecKV
MaxPrevLen == 2        \* longest previous key of SpecKV
MaxPageBytes == 2      \* longest page-0 byte region of SpecValidate

Procs == 1..NumProcs

(***************************************************************************)
(* Program constants.                                                      *)
(***************************************************************************)
Magic == 1111771475            \* 0x42444953
Version == 1
AllocPages == 8
maxPageSize == 65535
DefaultPageSize == 4096        \* "default system pagesize for most OS"
HeadPageSize == 48             \* unsafe.Sizeof(HeadPage{})
PageHeaderSize == 20           \* unsafe.Sizeof(Page{})
ReadBufSize == 4096            \* var buf [4096]byte in Open

CompSnappy == 0
CompNone == 1
CompLz4 == 2
CompressAlgorithm == {CompSnappy, CompNone, CompLz4}

PageIndex == 1
PageData == 2
PageFull == 4

Min(a, b) == IF a < b THEN a ELSE b
Max(a, b) == IF a < b THEN b ELSE a

VARIABLES
    disk,       \* the file at the path: existence, size, head page, page 1 flag
    fd,         \* per process: OS state of the descriptor behind db.file
    leaked,     \* descriptors no handle owns any more, by lock mode
    maps,       \* per process: live OS mappings of the file
    db,         \* per process: the DB struct of its current handle
    pc,         \* per process: position inside Open
    opt,        \* per process: Options of the Open in progress
    hs,         \* per process: "none" | "open" | "closed" handle
    ret,        \* per process: what the last Open returned
    closeRet,   \* per process: what the last Close returned
    faulted,    \* per process: a system call of this Open failed
    left,       \* per process: what the last failed Open left behind
    kv,         \* SpecKV: inputs, record bytes and decode result
    vd,         \* SpecValidate: head page, page bytes, result
    osPageSize, \* os.Getpagesize() of the host
    wf,         \* SpecWait: the waitflock call of process 1
    hd          \* SpecHandle: the map lock and the last call on the handle of process 1

osvars == <<disk, fd, leaked, maps>>
dbvars == <<db, pc, opt, hs, ret, closeRet>>
histvars == <<faulted, left>>
mainvars == <<disk, fd, leaked, maps, db, pc, opt, hs, ret, closeRet, faulted, left,
              osPageSize>>
vars == <<disk, fd, leaked, maps, db, pc, opt, hs, ret, closeRet, faulted, left, kv, vd,
          osPageSize, wf, hd>>

(***************************************************************************)
(* The file on disk.                                                       *)
(***************************************************************************)
NoHead == [magic |-> 0, Checksum |-> <<0, 0>>, Version |-> 0, Compression |-> 0,
           PageSize |-> 0, PageCount |-> 0, IndexPageCount |-> 0,
           indexPtr |-> <<0, 0>>, kvPtr |-> <<0, 0>>, nextIndexPage |-> 0, ptr |-> 0]

NoFile == [exists |-> FALSE, size |-> 0, head |-> NoHead, page1Flag |-> 0]

EmptyFile == [exists |-> TRUE, size |-> 0, head |-> NoHead, page1Flag |-> 0]

(***************************************************************************)
(* 32-bit words as <<high 16 bits, low 16 bits>>, and CRC-32 (IEEE) as     *)
(* hash/crc32.ChecksumIEEE computes it.                                    *)
(***************************************************************************)
RECURSIVE XorBits(_, _, _)
XorBits(a, b, n) ==
    IF n = 0 THEN 0
    ELSE (((a % 2) + (b % 2)) % 2) + (2 * XorBits(a \div 2, b \div 2, n - 1))

XorWord(c, d) == <<XorBits(c[1], d[1], 16), XorBits(c[2], d[2], 16)>>

ShiftRight1(c) == <<c[1] \div 2, (c[2] \div 2) + ((c[1] % 2) * 32768)>>

CrcPoly == <<60856, 33568>>       \* 0xEDB88320
AllOnes == <<65535, 65535>>       \* 0xFFFFFFFF
ZeroWord == <<0, 0>>

RECURSIVE CrcBits(_, _)
CrcBits(c, n) ==
    IF n = 0 THEN c
    ELSE CrcBits(IF c[2] % 2 = 1 THEN XorWord(ShiftRight1(c), CrcPoly)
                                 ELSE ShiftRight1(c), n - 1)

RECURSIVE CrcUpdate(_, _)
CrcUpdate(c, s) ==
    IF s = <<>> THEN c
    ELSE CrcUpdate(CrcBits(XorWord(c, <<0, Head(s)>>), 8), Tail(s))

\* e.g. ChecksumIEEE(<<97>>) = <<59575, 48707>>, that is 0xE8B7BE43
ChecksumIEEE(s) == XorWord(CrcUpdate(AllOnes, s), AllOnes)

(***************************************************************************)
(* HeadPage.validate: h is the head page, data the mapped bytes db.data    *)
(* (data[i+1] is byte i).  The slice db.data[h.ptr:h.PageSize] panics when *)
(* ptr > PageSize and faults when it runs past the mapping; both happen    *)
(* only when the stored checksum is non-zero.                              *)
(***************************************************************************)
validateNoZeroSkip(h, data) ==
    IF h.magic # Magic THEN "wrong magic"
    ELSE IF h.Version # Version THEN "version mismatch"
    ELSE IF h.ptr > h.PageSize THEN "panic"
    ELSE IF h.PageSize > Len(data) THEN "fault"
    ELSE IF h.Checksum # ChecksumIEEE(SubSeq(data, h.ptr + 1, h.PageSize))
         THEN "checksum mismatch"
    ELSE "nil"

validate(h, data) ==
    IF h.magic # Magic THEN "wrong magic"
    ELSE IF h.Version # Version THEN "version mismatch"
    ELSE IF h.Checksum = ZeroWord THEN "nil"
    ELSE IF h.ptr > h.PageSize THEN "panic"
    ELSE IF h.PageSize > Len(data) THEN "fault"
    ELSE IF h.Checksum # ChecksumIEEE(SubSeq(data, h.ptr + 1, h.PageSize))
         THEN "checksum mismatch"
    ELSE "nil"

(***************************************************************************)
(* Sizes handed to mmapSize are <<g, r>> = g GiB + r bytes, 0 <= r < GiB,  *)
(* so that the 256 TiB limit is representable.                             *)
(***************************************************************************)
GiB == 1073741824              \* maxMmapStep = 1 << 30
maxMapSizeGiB == 262144        \* maxMapSize = 0xFFFFFFFFFFFF = 2^18 GiB - 1
MinMapShift == 15              \* for i := uint(15); ...
MaxMapShift == 30              \* ...; i <= 30

ToSize(n) == <<n \div GiB, n % GiB>>
FromSize(s) == (s[1] * GiB) + s[2]

RECURSIVE MulMod(_, _, _)
MulMod(a, b, m) ==
    IF a = 0 THEN 0 ELSE ((2 * MulMod(a \div 2, b, m)) + ((a % 2) * (b % m))) % m

mmapSize(size, pageSize) ==
    IF size[1] < 0
    THEN [sz |-> ToSize(2^MinMapShift), err |-> "nil"]
    ELSE IF size[1] = 0 \/ size = <<1, 0>>
    THEN LET v == FromSize(size)
             i == CHOOSE k \in MinMapShift..MaxMapShift :
                      /\ v <= 2^k
                      /\ \A j \in MinMapShift..(k - 1) : v > 2^j
         IN [sz |-> ToSize(2^i), err |-> "nil"]
    ELSE IF size[1] >= maxMapSizeGiB
    THEN [sz |-> <<0, 0>>, err |-> "mmap too large"]
    ELSE LET g == IF size[2] > 0 THEN size[1] + 1 ELSE size[1]
         IN IF pageSize = 0
            THEN [sz |-> <<0, 0>>, err |-> "panic"]      \* sz % 0
            ELSE LET rem == MulMod(g, GiB % pageSize, pageSize)
                     sz == IF rem # 0 THEN <<g, pageSize - rem>> ELSE <<g, 0>>
                 IN IF sz[1] >= maxMapSizeGiB
                    THEN [sz |-> <<maxMapSizeGiB - 1, GiB - 1>>, err |-> "nil"]
                    ELSE [sz |-> sz, err |-> "nil"]

(***************************************************************************)
(* The DB struct.  file is the Go pointer db.file; the descriptor behind   *)
(* it is fd[p] ("closed", or open holding "none" | "sh" | "ex" lock).      *)
(* head is "nil", "buf" (into init's buffer) or "mapped" (into the         *)
(* mapping that was live when it was resolved).                            *)
(***************************************************************************)
NoDB == [opened |-> FALSE, readOnly |-> FALSE, path |-> "", file |-> "nil",
         writeAt |-> FALSE, dataref |-> FALSE, datasz |-> 0, filesz |-> 0,
         pageSize |-> 0, allocSize |-> 0, head |-> "nil",
         compression |-> CompSnappy, compressor |-> "nil", decompressor |-> "nil"]

DefaultOptions == [ReadOnly |-> FALSE, Compression |-> CompSnappy, InitialMmapSize |-> 0]

\* syscall.Flock(fd, flag|LOCK_NB): the lock modes other open descriptors hold
OtherLocks(p) == {fd[q] : q \in Procs \ {p}} \cup {m \in {"sh", "ex"} : leaked[m] > 0}

flockSharedNeverRefused(p, ro) ==
    IF ro THEN "nil"
    ELSE (IF OtherLocks(p) \cap {"sh", "ex"} # {} THEN "ErrWriteByOther" ELSE "nil")

flock(p, ro) ==
    IF ro THEN (IF "ex" \in OtherLocks(p) THEN "ErrWriteByOther" ELSE "nil")
    ELSE (IF OtherLocks(p) \cap {"sh", "ex"} # {} THEN "ErrWriteByOther" ELSE "nil")

funlock(f) == "none"

\* compress.go munmap: d the handle, m the live mappings of the process
munmap(d, m, fails) ==
    IF ~d.dataref THEN [db |-> d, maps |-> m, err |-> "nil"]
    ELSE [db |-> [d EXCEPT !.dataref = FALSE, !.datasz = 0],
          maps |-> IF fails THEN m ELSE m - 1,
          err |-> IF fails THEN "unmap error" ELSE "nil"]

\* DB.close: f the descriptor state, cf the system call that fails, if any
close(d, f, m, cf) ==
    IF ~d.opened THEN [db |-> d, fd |-> f, maps |-> m, err |-> "nil"]
    ELSE LET u == munmap([d EXCEPT !.opened = FALSE, !.writeAt = FALSE], m, cf = "munmap")
         IN IF u.err # "nil" THEN [db |-> u.db, fd |-> f, maps |-> u.maps, err |-> u.err]
            ELSE IF u.db.file = "nil"
            THEN [db |-> [u.db EXCEPT !.path = ""], fd |-> f, maps |-> u.maps, err |-> "nil"]
            ELSE LET f1 == IF ~u.db.readOnly /\ f # "closed" THEN funlock(f) ELSE f
                     \* file.Close() gives the descriptor up even when it reports an error
                     f2 == "closed"
                 IN IF cf = "close"
                    THEN [db |-> u.db, fd |-> f2, maps |-> u.maps, err |-> "db file closed"]
                    ELSE [db |-> [u.db EXCEPT !.file = "nil", !.path = ""], fd |-> f2,
                          maps |-> u.maps, err |-> "nil"]

(***************************************************************************)
(* DB.init: the two-page image written to an empty file.                   *)
(***************************************************************************)
initPageSize == Min(osPageSize, maxPageSize)

initHeadOnePage(compression) ==
    [magic |-> Magic, Checksum |-> ZeroWord, Version |-> Version,
     Compression |-> compression, PageSize |-> initPageSize, PageCount |-> 1,
     IndexPageCount |-> 0, indexPtr |-> <<0, HeadPageSize>>,
     kvPtr |-> <<1, PageHeaderSize>>, nextIndexPage |-> 0, ptr |-> HeadPageSize]

initHead(compression) ==
    [magic |-> Magic, Checksum |-> ZeroWord, Version |-> Version,
     Compression |-> compression, PageSize |-> initPageSize, PageCount |-> 2,
     IndexPageCount |-> 0, indexPtr |-> <<0, HeadPageSize>>,
     kvPtr |-> <<1, PageHeaderSize>>, nextIndexPage |-> 0, ptr |-> HeadPageSize]

initPage1Flag == PageData + PageFull        \* PageData | PageFull

\* the file after writeAt stored only the first n bytes of the image (n < 4 or n >= 48)
WrittenFile(h, n) ==
    [exists |-> TRUE, size |-> n,
     head |-> IF n >= HeadPageSize THEN h
              ELSE [NoHead EXCEPT !.magic = h.magic % (256^Min(n, 3))],
     page1Flag |-> IF n > initPageSize THEN initPage1Flag ELSE 0]

PartialWrites == {2, 100, 4096}     \* bytes a failing writeAt may have stored

\* the bytes of page 0 that the checksum covers; init leaves them zero
MappedBytes(dk) == [i \in 1..dk.head.PageSize |-> 0]

(***************************************************************************)
(* DB.mmap(minsz): dk the file, f the failing system call, if any.         *)
(***************************************************************************)
DBmmap(d, m, dk, minsz, f) ==
    IF f = "stat" THEN [db |-> d, maps |-> m, err |-> "mmap stat error"]
    ELSE IF dk.size < d.pageSize * 2 THEN [db |-> d, maps |-> m, err |-> "file size too small"]
    ELSE LET d1 == [d EXCEPT !.filesz = dk.size]
             ms == mmapSize(ToSize(Max(dk.size, minsz)), d.pageSize)
         IN IF ms.err # "nil" THEN [db |-> d1, maps |-> m, err |-> ms.err]
            ELSE LET u == munmap(d1, m, f = "munmap")
                 IN IF u.err # "nil" THEN u
                    ELSE IF f = "mmap" THEN [db |-> u.db, maps |-> u.maps, err |-> "mmap error"]
                    ELSE IF f = "madvise"
                    THEN [db |-> u.db, maps |-> u.maps + 1, err |-> "madvise error"]
                    ELSE [db |-> [u.db EXCEPT !.dataref = TRUE, !.datasz = FromSize(ms.sz),
                                              !.head = "mapped"],
                          maps |-> u.maps + 1,
                          err |-> validate(dk.head, MappedBytes(dk))]

(***************************************************************************)
(* Open, one action per stretch of code between the system calls on which  *)
(* other processes can interleave.                                         *)
(***************************************************************************)
InitialMmapSizes == {0, 40000}
OpenOptions == [ReadOnly : BOOLEAN, Compression : CompressAlgorithm,
                InitialMmapSize : InitialMmapSizes]
\* the options of the processes of Spec
SharedOptions == [ReadOnly : BOOLEAN, Compression : {DefaultOptions.Compression},
                  InitialMmapSize : {DefaultOptions.InitialMmapSize}]

LockModes == {"sh", "ex"}
NoLeft == [fd |-> FALSE, lock |-> "none", map |-> FALSE]
KVIdle == [stage |-> "off"]
VDIdle == [stage |-> "off"]
WFIdle == [pc |-> "off"]
HDIdle == [mmaplock |-> "off"]

LeakCount == leaked["sh"] + leaked["ex"]
InFlight == Cardinality({q \in Procs : pc[q] # "idle"})
LeakAfter(f) == IF f \in LockModes THEN [leaked EXCEPT ![f] = @ + 1] ELSE leaked
\* mappings of process p that no handle refers to
LostMaps(p) == maps[p] - (IF db[p].dataref THEN 1 ELSE 0)

\* Open returns (nil, err): the DB object is dropped with descriptor state f
\* and m live mappings.
OpenFails(p, err, f, m, flt) ==
    /\ fd' = [fd EXCEPT ![p] = "closed"]
    /\ leaked' = LeakAfter(f)
    /\ maps' = [maps EXCEPT ![p] = m]
    /\ db' = [db EXCEPT ![p] = NoDB]
    /\ pc' = [pc EXCEPT ![p] = "idle"]
    /\ opt' = [opt EXCEPT ![p] = DefaultOptions]
    /\ hs' = [hs EXCEPT ![p] = "none"]
    /\ ret' = [ret EXCEPT ![p] = err]
    /\ left' = [left EXCEPT ![p] = [fd |-> f # "closed",
                                    lock |-> IF f \in LockModes THEN f ELSE "none",
                                    map |-> m > maps[p]]]
    /\ faulted' = [faulted EXCEPT ![p] = @ \/ flt]

\* db.go 205-214: os.OpenFile, and once more with O_CREATE unless the file is
\* missing and the handle read-only; f = "open" makes the system call fail
openFileCreatesReadOnly(exists, ro, f) ==
    IF f = "open" THEN "open error" ELSE IF exists THEN "opened" ELSE "created"

openFile(exists, ro, f) ==
    IF ~exists /\ ro THEN "ErrNotExist"
    ELSE IF f = "open" THEN "open error"
    ELSE IF exists THEN "opened" ELSE "created"

\* db.go 185-214: new DB, options, os.OpenFile
OpenFile(p, o, f) ==
    /\ pc[p] = "idle"
    /\ hs[p] # "open"
    /\ LeakCount + InFlight + (IF fd[p] # "closed" THEN 1 ELSE 0) <= MaxLeaks
    /\ LET d0 == [NoDB EXCEPT !.opened = TRUE, !.compression = o.Compression,
                              !.readOnly = o.ReadOnly, !.path = "path"]
           r == openFile(disk.exists, o.ReadOnly, f)
       IN /\ closeRet' = [closeRet EXCEPT ![p] = "none"]
          /\ left' = [left EXCEPT ![p] = NoLeft]
          /\ leaked' = LeakAfter(fd[p])
          /\ hs' = [hs EXCEPT ![p] = "none"]
          /\ opt' = [opt EXCEPT ![p] = o]
          /\ UNCHANGED <<maps, kv, vd, osPageSize, wf, hd>>
          /\ IF r \in {"ErrNotExist", "open error"}
             THEN \* _ = db.close(); return nil, err
                  /\ db' = [db EXCEPT ![p] = NoDB]
                  /\ fd' = [fd EXCEPT ![p] = "closed"]
                  /\ ret' = [ret EXCEPT ![p] = r]
                  /\ faulted' = [faulted EXCEPT ![p] = r = "open error"]
                  /\ UNCHANGED <<disk, pc>>
             ELSE /\ disk' = IF r = "created" THEN EmptyFile ELSE disk
                  /\ db' = [db EXCEPT ![p] = [d0 EXCEPT !.file = "fd"]]
                  /\ fd' = [fd EXCEPT ![p] = "none"]
                  /\ ret' = [ret EXCEPT ![p] = "none"]
                  /\ faulted' = [faulted EXCEPT ![p] = FALSE]
                  /\ pc' = [pc EXCEPT ![p] = "flock"]

\* db.go 223-229: flock(db)
Flock(p, f, cf) ==
    /\ pc[p] = "flock"
    /\ LET e == IF f = "flock" THEN "flock failed: unknown error"
                ELSE flock(p, db[p].readOnly)
       IN /\ UNCHANGED <<disk, closeRet, kv, vd, osPageSize, wf, hd>>
          /\ IF e = "nil"
             THEN /\ cf = "none"
                  /\ fd' = [fd EXCEPT ![p] = IF db[p].readOnly THEN "sh" ELSE "ex"]
                  /\ db' = [db EXCEPT ![p].writeAt = TRUE]
                  /\ pc' = [pc EXCEPT ![p] = "stat"]
                  /\ UNCHANGED <<leaked, maps, opt, hs, ret, left, faulted>>
             ELSE LET c == close(db[p], fd[p], maps[p], cf)
                  IN OpenFails(p, e, c.fd, c.maps, f # "none" \/ cf # "none")

\* db.go 232-247: Stat, then init of an empty file or the read of the page size
StatInit(p, f, n) ==
    /\ pc[p] = "stat"
    /\ UNCHANGED <<closeRet, kv, vd, osPageSize, wf, hd>>
    /\ LET d == db[p]
           h == initHead(d.compression)
       IN IF f = "stat"
          THEN /\ OpenFails(p, "stat error", fd[p], maps[p], TRUE)
               /\ UNCHANGED disk
          ELSE IF disk.size = 0
          THEN IF d.readOnly
               THEN \* writeAt on an O_RDONLY descriptor fails
                    /\ f = "none"
                    /\ OpenFails(p, "write error", fd[p], maps[p], FALSE)
                    /\ UNCHANGED disk
               ELSE IF f = "write"
               THEN /\ OpenFails(p, "write error", fd[p], maps[p], TRUE)
                    /\ disk' = WrittenFile(h, n)
               ELSE IF f = "sync"
               THEN /\ OpenFails(p, "sync error", fd[p], maps[p], TRUE)
                    /\ disk' = WrittenFile(h, 2 * initPageSize)
               ELSE /\ f = "none"
                    /\ disk' = WrittenFile(h, 2 * initPageSize)
                    /\ db' = [db EXCEPT ![p] = [d EXCEPT !.pageSize = initPageSize,
                                                         !.head = "buf",
                                                         !.allocSize = AllocPages * initPageSize]]
                    /\ pc' = [pc EXCEPT ![p] = "mmap"]
                    /\ faulted' = [faulted EXCEPT ![p] = @ \/ f # "none"]
                    /\ UNCHANGED <<fd, leaked, maps, opt, hs, ret, left>>
          ELSE LET ps == IF f # "read" /\ disk.size >= ReadBufSize
                         THEN disk.head.PageSize ELSE d.pageSize
               IN /\ f \in {"none", "read"}
                  /\ db' = [db EXCEPT ![p] = [d EXCEPT !.pageSize = ps,
                                                       !.allocSize = AllocPages * ps]]
                  /\ pc' = [pc EXCEPT ![p] = "mmap"]
                  /\ faulted' = [faulted EXCEPT ![p] = @ \/ f # "none"]
                  /\ UNCHANGED <<disk, fd, leaked, maps, opt, hs, ret, left>>

\* db.go 262-269
compressorOf(c) ==
    IF c = CompSnappy THEN "SnappyCompress" ELSE IF c = CompLz4 THEN "Lz4Compress" ELSE "nil"

decompressorOf(c) ==
    IF c = CompSnappy THEN "SnappyDeCompress" ELSE IF c = CompLz4 THEN "Lz4DeCompress" ELSE "nil"

\* db.go 257-272: db.mmap(options.InitialMmapSize), the compressor switch, return
Mmap(p, f, cf) ==
    /\ pc[p] = "mmap"
    /\ UNCHANGED <<disk, closeRet, kv, vd, osPageSize, wf, hd>>
    /\ LET r == DBmmap(db[p], maps[p], disk, opt[p].InitialMmapSize, f)
       IN IF r.err # "nil"
          THEN LET c == close(r.db, fd[p], r.maps, cf)
               IN /\ c.maps <= MaxLeaks
                  /\ OpenFails(p, r.err, c.fd, c.maps, f # "none" \/ cf # "none")
          ELSE /\ cf = "none"
               /\ db' = [db EXCEPT ![p] = [r.db EXCEPT
                            !.compressor = IF compressorOf(r.db.compression) # "nil"
                                           THEN compressorOf(r.db.compression) ELSE @,
                            !.decompressor = IF decompressorOf(r.db.compression) # "nil"
                                             THEN decompressorOf(r.db.compression) ELSE @]]
               /\ maps' = [maps EXCEPT ![p] = r.maps]
               /\ hs' = [hs EXCEPT ![p] = "open"]
               /\ ret' = [ret EXCEPT ![p] = "nil"]
               /\ pc' = [pc EXCEPT ![p] = "idle"]
               /\ opt' = [opt EXCEPT ![p] = DefaultOptions]
               /\ UNCHANGED <<fd, leaked, left, faulted>>

\* DB.Close on a handle Open returned (also a second time)
Close(p, cf) ==
    /\ pc[p] = "idle"
    /\ hs[p] \in {"open", "closed"}
    /\ LET c == close(db[p], fd[p], maps[p], cf)
       IN /\ c.maps <= MaxLeaks
          /\ db' = [db EXCEPT ![p] = c.db]
          /\ fd' = [fd EXCEPT ![p] = c.fd]
          /\ maps' = [maps EXCEPT ![p] = c.maps]
          /\ closeRet' = [closeRet EXCEPT ![p] = c.err]
    /\ hs' = [hs EXCEPT ![p] = "closed"]
    /\ UNCHANGED <<disk, leaked, pc, opt, ret, faulted, left, kv, vd, osPageSize, wf, hd>>

\* a descriptor no handle owns is closed by the runtime (finalizer, process exit)
Finalize(m) ==
    /\ leaked[m] > 0
    /\ leaked' = [leaked EXCEPT ![m] = @ - 1]
    /\ UNCHANGED <<disk, fd, maps, db, pc, opt, hs, ret, closeRet, faulted, left, kv, vd,
                   osPageSize, wf, hd>>

\* page sizes of the hosts: 4 KB, 16 KB, 64 KB
HostPageSizes == {DefaultPageSize, 4 * DefaultPageSize, 16 * DefaultPageSize}

Init ==
    /\ disk = NoFile
    /\ fd = [p \in Procs |-> "closed"]
    /\ leaked = [m \in LockModes |-> 0]
    /\ maps = [p \in Procs |-> 0]
    /\ db = [p \in Procs |-> NoDB]
    /\ pc = [p \in Procs |-> "idle"]
    /\ opt = [p \in Procs |-> DefaultOptions]
    /\ hs = [p \in Procs |-> "none"]
    /\ ret = [p \in Procs |-> "none"]
    /\ closeRet = [p \in Procs |-> "none"]
    /\ faulted = [p \in Procs |-> FALSE]
    /\ left = [p \in Procs |-> NoLeft]
    /\ kv = KVIdle
    /\ vd = VDIdle
    /\ osPageSize \in HostPageSizes
    /\ wf = WFIdle
    /\ hd = HDIdle

Steps(p, options) ==
    \/ \E o \in options, f \in {"none", "open"} : OpenFile(p, o, f)
    \/ \E f \in {"none", "flock"}, cf \in {"none", "close"} : Flock(p, f, cf)
    \/ \E f \in {"none", "stat", "read", "write", "sync"}, n \in PartialWrites :
           StatInit(p, f, n)
    \/ \E f \in {"none", "stat", "mmap", "madvise"},
          cf \in {"none", "munmap", "close"} : Mmap(p, f, cf)
    \/ \E cf \in {"none", "munmap", "close"} : Close(p, cf)

Next ==
    \/ \E p \in Procs : Steps(p, SharedOptions)
    \/ \E m \in LockModes : Finalize(m)

Spec == Init /\ [][Next]_vars

NextSolo ==
    \/ Steps(1, OpenOptions)
    \/ \E m \in LockModes : Finalize(m)

SpecSolo == Init /\ [][NextSolo]_vars

(***************************************************************************)
(* Properties of Open and Close.                                           *)
(***************************************************************************)
OwnState(p) == <<db[p], pc[p], opt[p], hs[p], ret[p], closeRet[p], faulted[p], left[p],
                 fd[p], maps[p]>>
\* the step is process p's OpenFile
OpenFileStep(p) == pc[p] = "idle" /\ hs'[p] = "none" /\ OwnState(p)' # OwnState(p)
\* the step is process p's flock
FlockStep(p) == pc[p] = "flock" /\ pc'[p] # "flock"
OpenHandles(p) == {q \in Procs \ {p} : hs[q] = "open"}

C1_Exclusive ==
    \A p, q \in Procs : (p # q /\ hs[p] = "open" /\ ~db[p].readOnly) => hs[q] # "open"

C1_Refused(p) ==
    /\ pc'[p] = "idle" /\ hs'[p] = "none" /\ fd'[p] = "closed"
    /\ \/ ret'[p] = "ErrWriteByOther"
       \/ faulted'[p] /\ ret'[p] = "flock failed: unknown error"

C1_FlockStep ==
    \A p \in Procs : FlockStep(p) =>
        /\ (~db[p].readOnly /\ OpenHandles(p) # {}) => C1_Refused(p)
        /\ (db[p].readOnly /\ \E q \in OpenHandles(p) : ~db[q].readOnly) => C1_Refused(p)
        /\ (db[p].readOnly /\ OpenHandles(p) # {} /\ \A q \in OpenHandles(p) : db[q].readOnly)
               => /\ ret'[p] # "ErrWriteByOther"
                  /\ ~faulted'[p] => (pc'[p] = "stat" /\ fd'[p] = "sh")

\* the file holds a head page that validates and the pages it declares
C1_DatabaseFile ==
    /\ disk.head.magic = Magic /\ disk.head.Version = Version
    /\ disk.head.PageSize > 0
    /\ disk.size >= ReadBufSize /\ disk.size >= 2 * disk.head.PageSize

\* a read-only Open of a database file, holding its lock beside read-only
\* handles, goes on to return a handle, unless a system call fails
C1_ReaderProceeds ==
    \A p \in Procs :
        (/\ pc[p] \in {"stat", "mmap"} /\ pc'[p] # pc[p]
         /\ db[p].readOnly /\ OpenHandles(p) # {} /\ ~faulted'[p]
         /\ C1_DatabaseFile)
        => \/ pc[p] = "stat" /\ pc'[p] = "mmap"
           \/ pc[p] = "mmap" /\ hs'[p] = "open" /\ ret'[p] = "nil" /\ fd'[p] = "sh"

\* C1: a write-mode handle is never open together with another handle; an Open
\* that reaches flock while a conflicting handle is open returns no handle, with
\* ErrWriteByOther unless flock itself failed; a read-only Open beside read-only
\* handles is granted the shared lock and, the file being a database file,
\* returns a handle unless a system call fails.
C1_LockExclusivity == []C1_Exclusive /\ [][C1_FlockStep /\ C1_ReaderProceeds]_vars

C1_Witness ==
    \E p, q \in Procs : /\ p # q
                        /\ hs[p] = "open" /\ ~db[p].readOnly
                        /\ pc[q] = "idle" /\ hs[q] = "none" /\ ret[q] = "ErrWriteByOther"
                        /\ fd[q] = "closed"

\* C2: after Open returned an error nothing of that call is left behind: no open
\* descriptor, no lock, no mapping.
C2_NoDanglingAfterFailedOpen ==
    \A p \in Procs : (pc[p] = "idle" /\ ret[p] \notin {"none", "nil"}) => left[p] = NoLeft

\* C3: once Close has returned, the descriptor of the handle holds no lock.
C3_CloseReleasesLock ==
    \A p \in Procs : hs[p] = "closed" => fd[p] \notin LockModes

\* C4: an open handle's compression selection and compressor pair are those of
\* the algorithm id stored in the file's head page.
C4_ReopenUsesPersisted ==
    \A p \in Procs : hs[p] = "open" =>
        /\ db[p].compression = disk.head.Compression
        /\ db[p].compressor = compressorOf(disk.head.Compression)
        /\ db[p].decompressor = decompressorOf(disk.head.Compression)

\* the step is a Close of process p's handle
C24_CloseStep(p) ==
    pc[p] = "idle" /\ hs[p] \in {"open", "closed"} /\ hs'[p] = "closed" /\ leaked' = leaked

C24_Released(p) == fd'[p] = "closed" /\ maps'[p] = 0 /\ ~db'[p].dataref

C24_Repeated(p) ==
    hs[p] = "closed" =>
        (closeRet'[p] = "nil" /\ db'[p] = db[p] /\ fd'[p] = fd[p] /\ maps'[p] = maps[p]
         /\ disk' = disk)

\* C24: every Close on a handle, whatever it returns, leaves the handle with
\* no mapping, no open descriptor and no lock, and a Close on a handle that
\* was closed before returns nil and changes nothing
C24_CloseIdempotent ==
    [][\A p \in Procs : C24_CloseStep(p) => (C24_Released(p) /\ C24_Repeated(p))]_vars

C7_OpenFileStep ==
    \A p \in Procs : (OpenFileStep(p) /\ ~disk.exists) =>
        IF opt'[p].ReadOnly
        THEN /\ ret'[p] = "ErrNotExist"
             /\ pc'[p] = "idle" /\ hs'[p] = "none" /\ fd'[p] = "closed"
             /\ disk' = disk
        ELSE \/ faulted'[p] /\ ret'[p] = "open error" /\ hs'[p] = "none" /\ disk' = disk
             \/ disk'.exists /\ disk'.size = 0 /\ pc'[p] = "flock" /\ fd'[p] # "closed"

C7_InitStep ==
    \A p \in Procs :
        (pc[p] = "stat" /\ pc'[p] # "stat" /\ ~db[p].readOnly /\ disk.size = 0 /\ ~faulted'[p]) =>
            /\ pc'[p] = "mmap"
            /\ disk'.size = 2 * initPageSize
            /\ disk'.head.magic = Magic /\ disk'.head.Version = Version
            /\ disk'.head.PageCount = 2 /\ disk'.head.PageSize = initPageSize

\* C7: a read-only Open of a missing path returns the does-not-exist error, no
\* handle, and leaves the path missing; a write-mode Open of a missing path
\* creates the file, and the write-mode Open that finds it empty under its lock
\* writes the two-page image unless a system call fails.
C7_MissingPath == [][C7_OpenFileStep /\ C7_InitStep]_vars

C7_Witness ==
    \E p, q \in Procs : /\ ret[p] = "ErrNotExist" /\ opt[p].ReadOnly /\ hs[p] = "none"
                        /\ hs[q] = "open" /\ ~db[q].readOnly /\ ~faulted[q]
                        /\ disk.size = 2 * initPageSize

\* the test written flag&X == 0
HasFlagInverted(b, flag) == (b \div flag) % 2 = 0

HasFlag(b, flag) == (b \div flag) % 2 = 1

\* process p's step returns from the Open with default options that wrote the
\* two-page image
C8_Creating(p) == pc[p] = "mmap" /\ db[p].head = "buf" /\ opt[p] = DefaultOptions

C8_Handle(p) ==
    /\ db'[p].head = "mapped" /\ db'[p].dataref
    /\ disk'.head.PageCount = 2
    /\ disk'.head.magic = Magic
    /\ disk'.head.Compression = CompSnappy
    /\ db'[p].compression = CompSnappy
    /\ db'[p].pageSize > 0
    /\ db'[p].filesz = 2 * db'[p].pageSize
    /\ disk'.size = 2 * db'[p].pageSize
    /\ HasFlag(disk'.page1Flag, PageData)
    /\ HasFlag(disk'.page1Flag, PageFull)
    /\ ~HasFlag(disk'.page1Flag, PageIndex)

C8_Step ==
    \A p \in Procs :
        C8_Creating(p) =>
            /\ ~faulted'[p] => hs'[p] = "open"
            /\ hs'[p] = "open" => (C8_Handle(p) /\ db'[p].datasz = 32 * 1024)

C8_MapFits(datasz, sz) ==
    \E i \in MinMapShift..MaxMapShift :
        /\ datasz = 2^i
        /\ sz <= datasz
        /\ i > MinMapShift => sz > 2^(i - 1)

C8_StepAmended ==
    \A p \in Procs :
        C8_Creating(p) =>
            /\ ~faulted'[p] => hs'[p] = "open"
            /\ hs'[p] = "open" =>
                /\ C8_Handle(p)
                /\ C8_MapFits(db'[p].datasz, 2 * db'[p].pageSize)
                /\ db'[p].pageSize <= 4 * DefaultPageSize => db'[p].datasz = 32 * 1024

C10_HandleHoldsTwoPages ==
    \A p \in Procs : hs[p] = "open" =>
        /\ db[p].pageSize > 0
        /\ disk.head.PageCount >= 2
        /\ disk.size >= 2 * db[p].pageSize
        /\ disk.size >= 2 * disk.head.PageSize

(***************************************************************************)
(* The KV record codec.  Byte slices are sequences of 0..255.              *)
(***************************************************************************)
KVKeyPrefixed == 1
KVKeyCompressed == 2
KVValueCompressed == 4
minKVSize == 5
MaxPrefix == 255               \* if length >= 255 { return }
MaxVarintLen64 == 10

\* The loop of getCommonPrefix from index n, stopping when length reaches cap.
\* The iterations are evaluated ScanBlock at a time (scanBlock runs at most k of
\* them and says whether the loop returned), so that the evaluation of 255
\* iterations does not nest 255 deep.
ScanBlock == 16

RECURSIVE scanBlock(_, _, _, _, _)
scanBlock(a, b, n, k, cap) ==
    IF n >= Len(b) \/ n >= Len(a) \/ b[n + 1] # a[n + 1] THEN [n |-> n, done |-> TRUE]
    ELSE IF n + 1 >= cap THEN [n |-> n + 1, done |-> TRUE]
    ELSE IF k = 1 THEN [n |-> n + 1, done |-> FALSE]
    ELSE scanBlock(a, b, n + 1, k - 1, cap)

RECURSIVE commonUpTo(_, _, _, _)
commonUpTo(a, b, n, cap) ==
    LET r == scanBlock(a, b, n, ScanBlock, cap)
    IN IF r.done THEN r.n ELSE commonUpTo(a, b, r.n, cap)

commonFrom(a, b, n) == commonUpTo(a, b, n, MaxPrefix)

\* the count without the stop at 255, in the uint8 the result has
getCommonPrefixWraps(a, b) == commonUpTo(a, b, 0, Len(a) + Len(b) + 1) % 256

getCommonPrefix(a, b) == commonFrom(a, b, 0)

\* encoding/binary.PutUvarint
RECURSIVE PutUvarint(_)
PutUvarint(x) == IF x < 128 THEN <<x>> ELSE <<(x % 128) + 128>> \o PutUvarint(x \div 128)

\* encoding/binary.ReadUvarint on the bytes of data after position pos
RECURSIVE readUvarintFrom(_, _, _, _, _)
readUvarintFrom(data, pos, i, x, mul) ==
    IF i >= MaxVarintLen64 THEN [val |-> x, pos |-> pos, err |-> "overflow"]
    ELSE IF pos >= Len(data)
    THEN [val |-> x, pos |-> pos, err |-> IF i > 0 THEN "unexpected EOF" ELSE "EOF"]
    ELSE LET b == data[pos + 1]
         IN IF b < 128
            THEN [val |-> x + (b * mul), pos |-> pos + 1, err |-> "nil"]
            ELSE readUvarintFrom(data, pos + 1, i + 1, x + ((b % 128) * mul), mul * 128)

ReadUvarint(data, pos) == readUvarintFrom(data, pos, 0, 0, 1)

\* bytes.Reader.Read into a buffer of n bytes: EOF when nothing is left to
\* read (whatever n is), else the bytes that are there and no error
readerRead(data, pos, n) ==
    IF pos >= Len(data) THEN [buf |-> [i \in 1..n |-> 0], pos |-> pos, err |-> "EOF"]
    ELSE LET got == Min(n, Len(data) - pos)
         IN [buf |-> [i \in 1..n |-> IF i <= got THEN data[pos + i] ELSE 0],
             pos |-> pos + got, err |-> "nil"]

(***************************************************************************)
(* A Compressor / DeCompressor pair.  The codec only relies on the pair's  *)
(* contract, so the backend is modelled by run-length coding: like snappy  *)
(* and lz4 it makes unrepetitive input longer and repetitive input         *)
(* shorter, and its decoder rejects malformed input.                       *)
(***************************************************************************)
RECURSIVE runLength(_, _)
runLength(s, n) ==
    IF n < Len(s) /\ s[n + 1] = s[1] THEN runLength(s, n + 1) ELSE n

RECURSIVE Compress(_)
Compress(in) ==
    IF in = <<>> THEN <<>>
    ELSE LET n == runLength(in, 1)
         IN <<n, in[1]>> \o Compress(SubSeq(in, n + 1, Len(in)))

RECURSIVE expand(_)
expand(in) ==
    IF in = <<>> THEN <<>>
    ELSE [i \in 1..in[1] |-> in[2]] \o expand(SubSeq(in, 3, Len(in)))

DeCompress(in) ==
    IF Len(in) % 2 = 1 \/ \E i \in 1..Len(in) : i % 2 = 1 /\ in[i] = 0
    THEN [out |-> <<>>, err |-> "corrupt input"]
    ELSE [out |-> expand(in), err |-> "nil"]

\* a nil Compressor / DeCompressor is "nil", the pair above is "rle"
compressWith(c, in) == Compress(in)
decompressWith(c, in) == DeCompress(in)

(***************************************************************************)
(* KVPair.Marshal                                                          *)
(***************************************************************************)
keySuffix(Key, prevKey) == SubSeq(Key, getCommonPrefix(prevKey, Key) + 1, Len(Key))

\* the key and value bytes Marshal stores, and the flag bits they set
storedKey(Key, prevKey, compressor) ==
    LET key == keySuffix(Key, prevKey)
    IN IF compressor # "nil" /\ Len(compressWith(compressor, key)) < Len(key)
       THEN [b |-> compressWith(compressor, key), flag |-> KVKeyCompressed]
       ELSE [b |-> key, flag |-> 0]

\* the compressed value adopted when it is not longer, instead of shorter
storedValueNotLonger(Value, compressor) ==
    IF compressor # "nil" /\ Len(compressWith(compressor, Value)) <= Len(Value)
    THEN [b |-> compressWith(compressor, Value), flag |-> KVValueCompressed]
    ELSE [b |-> Value, flag |-> 0]

storedValue(Value, compressor) ==
    IF compressor # "nil" /\ Len(compressWith(compressor, Value)) < Len(Value)
    THEN [b |-> compressWith(compressor, Value), flag |-> KVValueCompressed]
    ELSE [b |-> Value, flag |-> 0]

Marshal(Key, Value, prevKey, compressor) ==
    LET prefixLen == getCommonPrefix(prevKey, Key)
        prefixed == prefixLen > 0
        key == storedKey(Key, prevKey, compressor)
        value == storedValue(Value, compressor)
        flag == (IF prefixed THEN KVKeyPrefixed ELSE 0) + key.flag + value.flag
    IN <<flag>> \o (IF prefixed THEN <<prefixLen>> ELSE <<>>)
        \o PutUvarint(Len(key.b)) \o key.b
        \o PutUvarint(Len(value.b)) \o value.b

(***************************************************************************)
(* KVPair.Unmarshal into an empty KVPair.  data is [nil, b]: a nil slice   *)
(* or the bytes b.                                                         *)
(***************************************************************************)
NilSlice == [nil |-> TRUE, b |-> <<>>]
Slice(b) == [nil |-> FALSE, b |-> b]
KVError(e) == [err |-> e, Key |-> <<>>, Value |-> <<>>]

Unmarshal(data, prevKey, decompressor) ==
    IF data.nil THEN KVError("empty KV data")
    ELSE IF Len(data.b) < minKVSize THEN KVError("KV data les than min data size 5")
    ELSE
    LET d == data.b
        flag == d[1]
        prefixed == HasFlag(flag, KVKeyPrefixed)
        keyC == HasFlag(flag, KVKeyCompressed)
        valC == HasFlag(flag, KVValueCompressed)
        prefixedLen == IF prefixed THEN d[2] ELSE 0
        pos0 == IF prefixed THEN 2 ELSE 1
    IN
    IF prefixed /\ Len(prevKey) < prefixedLen THEN KVError("wrong prefixed key len")
    ELSE IF decompressor = "nil" /\ (keyC \/ valC)
    THEN KVError("key is compressed but decompressor is nil")
    ELSE
    LET prefix == SubSeq(prevKey, 1, prefixedLen)
        kLen == ReadUvarint(d, pos0)
    IN
    IF kLen.err # "nil" THEN KVError("failed to read key length")
    ELSE
    LET key == readerRead(d, kLen.pos, kLen.val)
    IN
    IF key.err # "nil" THEN KVError("failed to read key")
    ELSE
    LET vLen == ReadUvarint(d, key.pos)
    IN
    IF vLen.err # "nil" THEN KVError("failed to read value length")
    ELSE
    LET val == readerRead(d, vLen.pos, vLen.val)
    IN
    IF val.err # "nil" THEN KVError("failed to read value")
    ELSE
    LET keyD == IF keyC THEN decompressWith(decompressor, key.buf)
                ELSE [out |-> key.buf, err |-> "nil"]
    IN
    IF keyD.err # "nil" THEN KVError("failed to decompress key")
    ELSE
    LET valD == IF valC THEN decompressWith(decompressor, val.buf)
                ELSE [out |-> val.buf, err |-> "nil"]
    IN
    IF valD.err # "nil" THEN KVError("failed to decompress value")
    ELSE [err |-> "nil", Key |-> prefix \o keyD.out, Value |-> valD.out]

(***************************************************************************)
(* SpecKV: a record is marshalled, the first Len - cut bytes of it are     *)
(* unmarshalled with the same previous key and the matching decompressor.  *)
(***************************************************************************)
KeyBytes == {97, 98}
MaxCut == 3            \* most bytes missing at the end of a record

RECURSIVE SeqsUpTo(_, _)
SeqsUpTo(S, n) ==
    IF n = 0 THEN {<<>>}
    ELSE SeqsUpTo(S, n - 1) \cup {Append(t, x) : t \in {u \in SeqsUpTo(S, n - 1) : Len(u) = n - 1}, x \in S}

NoKVOut == KVError("none")

IdleMain ==
    /\ disk = NoFile
    /\ fd = [p \in Procs |-> "closed"]
    /\ leaked = [m \in LockModes |-> 0]
    /\ maps = [p \in Procs |-> 0]
    /\ db = [p \in Procs |-> NoDB]
    /\ pc = [p \in Procs |-> "idle"]
    /\ opt = [p \in Procs |-> DefaultOptions]
    /\ hs = [p \in Procs |-> "none"]
    /\ ret = [p \in Procs |-> "none"]
    /\ closeRet = [p \in Procs |-> "none"]
    /\ faulted = [p \in Procs |-> FALSE]
    /\ left = [p \in Procs |-> NoLeft]
    /\ osPageSize = DefaultPageSize

InitKV ==
    /\ IdleMain
    /\ vd = VDIdle
    /\ wf = WFIdle
    /\ hd = HDIdle
    /\ \E k \in SeqsUpTo(KeyBytes, MaxKeyLen), v \in SeqsUpTo(KeyBytes, MaxValLen),
          pk \in SeqsUpTo(KeyBytes, MaxPrevLen), c \in {"nil", "rle"}, n \in 0..MaxCut :
           kv = [stage |-> "in", Key |-> k, Value |-> v, prevKey |-> pk, compressor |-> c,
                 cut |-> n, data |-> <<>>, out |-> NoKVOut]

KVMarshal ==
    /\ kv.stage = "in"
    /\ kv' = [kv EXCEPT !.stage = "marshalled",
                        !.data = Marshal(kv.Key, kv.Value, kv.prevKey, kv.compressor)]
    /\ UNCHANGED <<mainvars, vd, wf, hd>>

KVUnmarshal ==
    /\ kv.stage = "marshalled"
    /\ kv.cut <= Len(kv.data)
    /\ kv' = [kv EXCEPT !.stage = "unmarshalled",
                        !.out = Unmarshal(Slice(SubSeq(kv.data, 1, Len(kv.data) - kv.cut)),
                                          kv.prevKey, kv.compressor)]
    /\ UNCHANGED <<mainvars, vd, wf, hd>>

NextKV == KVMarshal \/ KVUnmarshal

SpecKV == InitKV /\ [][NextKV]_vars

\* C5: a marshalled record decodes, with the same previous key and the matching
\* decompressor (or none), to the key and value it was made from.
C5_RoundTrip ==
    (kv.stage = "unmarshalled" /\ kv.cut = 0) =>
        /\ kv.out.err = "nil"
        /\ kv.out.Key = kv.Key
        /\ kv.out.Value = kv.Value

\* the record ends inside its value bytes / inside its key bytes
ValueCutShort ==
    kv.cut >= 1 /\ kv.cut <= Len(storedValue(kv.Value, kv.compressor).b)
KeyCutShort ==
    LET v == Len(storedValue(kv.Value, kv.compressor).b)
        k == Len(storedKey(kv.Key, kv.prevKey, kv.compressor).b)
    IN kv.cut > v + 1 /\ kv.cut <= v + 1 + k

\* C6: when the input ends before the key bytes or the value bytes its length
\* prefix declares, Unmarshal returns an error.
C6_ShortInputFails ==
    (kv.stage = "unmarshalled" /\ (ValueCutShort \/ KeyCutShort)) => kv.out.err # "nil"

(***************************************************************************)
(* SpecDecode: KVPair.Unmarshal applied to any input: a nil slice or up to *)
(* MaxRawLen bytes, with any previous key and with or without a            *)
(* decompressor.                                                           *)
(***************************************************************************)
MaxRawLen == 6
RawBytes == {0, 1, 2, 97}

ErrEmptyKV == "empty KV data"
ErrShortKV == "KV data les than min data size 5"
ErrBadPrefix == "wrong prefixed key len"

MaxSpare == 1

\* append(arr[:n], key...) on the backing array arr of the caller's slice:
\* the bytes are stored in place when they fit into the capacity
goAppend(arr, n, key) ==
    IF n + Len(key) <= Len(arr)
    THEN [arr |-> [i \in 1..Len(arr) |->
                     IF i > n /\ i <= n + Len(key) THEN key[i - n] ELSE arr[i]],
          shared |-> Len(arr) > 0]
    ELSE [arr |-> arr, shared |-> FALSE]

\* db_test.go 111-118, 155: what Unmarshal leaves in prevKey, a slice with
\* spare bytes of capacity beyond its length, and whether kv.Key lies in
\* prevKey's backing array
keyStore(data, prevKey, spare, decompressor) ==
    LET r == Unmarshal(data, prevKey, decompressor)
    IN IF r.err # "nil" \/ ~HasFlag(data.b[1], KVKeyPrefixed)
       THEN [prev |-> prevKey, shared |-> FALSE]
       ELSE LET n == data.b[2]
                a == goAppend(prevKey \o [i \in 1..spare |-> 0], n,
                              SubSeq(r.Key, n + 1, Len(r.Key)))
            IN [prev |-> SubSeq(a.arr, 1, Len(prevKey)), shared |-> a.shared]

InitDecode ==
    /\ IdleMain
    /\ vd = VDIdle
    /\ wf = WFIdle
    /\ hd = HDIdle
    /\ \E d \in {NilSlice} \cup {Slice(b) : b \in SeqsUpTo(RawBytes, MaxRawLen)},
          pk \in SeqsUpTo(KeyBytes, MaxPrevLen), sp \in 0..MaxSpare, c \in {"nil", "rle"} :
           kv = [stage |-> "raw", Key |-> <<>>, Value |-> <<>>, prevKey |-> pk,
                 spare |-> sp, prevAfter |-> pk, shared |-> FALSE,
                 compressor |-> c, cut |-> 0, data |-> d, out |-> NoKVOut]

KVDecode ==
    /\ kv.stage = "raw"
    /\ LET k == keyStore(kv.data, kv.prevKey, kv.spare, kv.compressor)
       IN kv' = [kv EXCEPT !.stage = "decoded",
                           !.out = Unmarshal(kv.data, kv.prevKey, kv.compressor),
                           !.prevAfter = k.prev, !.shared = k.shared]
    /\ UNCHANGED <<mainvars, vd, wf, hd>>

NextDecode == KVDecode

SpecDecode == InitDecode /\ [][NextDecode]_vars

\* C11: nil or empty input fails with the empty-input error, non-empty input
\* shorter than 5 bytes with the truncation error.
C11_ShortInputErrors ==
    kv.stage = "decoded" =>
        /\ (kv.data.nil \/ kv.data.b = <<>>) => kv.out.err = ErrEmptyKV
        /\ (~kv.data.nil /\ Len(kv.data.b) > 0 /\ Len(kv.data.b) < minKVSize)
              => kv.out.err = ErrShortKV

\* the input holds a record with the KeyPrefixed bit set in its flag byte
C13_PrefixedRecord ==
    /\ kv.stage = "decoded" /\ ~kv.data.nil
    /\ Len(kv.data.b) >= minKVSize
    /\ kv.data.b[1] % 2 = 1

\* C13: for a record with KeyPrefixed set, a prefix-length byte above the length
\* of the previous key gives the bad-prefix error, and otherwise a decoded key
\* begins with that many leading bytes of the previous key.
C13_PrefixByte ==
    C13_PrefixedRecord =>
        LET n == kv.data.b[2]
        IN IF n > Len(kv.prevKey) THEN kv.out.err = ErrBadPrefix
           ELSE /\ kv.out.err # ErrBadPrefix
                /\ kv.out.err = "nil" =>
                      /\ Len(kv.out.Key) >= n
                      /\ SubSeq(kv.out.Key, 1, n) = SubSeq(kv.prevKey, 1, n)

C13_Witness ==
    /\ C13_PrefixedRecord
    /\ kv.data.b[2] = 2 /\ Len(kv.prevKey) = 2
    /\ kv.out.err = "nil" /\ Len(kv.out.Key) = 3

(***************************************************************************)
(* SpecPrefix: getCommonPrefix(a, b) and getCommonPrefix(b, a) on inputs   *)
(* that share a run of n bytes and go on with short tails; n is small or   *)
(* next to the limit of 255.                                               *)
(***************************************************************************)
MaxTailLen == 2
SharedLens == {0, 1, 2, MaxPrefix - 1, MaxPrefix, MaxPrefix + 1}
SharedRun(n) == [i \in 1..n |-> 97]

InitPrefix ==
    /\ IdleMain
    /\ vd = VDIdle
    /\ wf = WFIdle
    /\ hd = HDIdle
    /\ \E n \in SharedLens, ta \in SeqsUpTo(KeyBytes, MaxTailLen),
          tb \in SeqsUpTo(KeyBytes, MaxTailLen) :
           kv = [stage |-> "prefix", a |-> SharedRun(n) \o ta, b |-> SharedRun(n) \o tb,
                 length |-> 0, swapped |-> 0]

PrefixCompute ==
    /\ kv.stage = "prefix"
    /\ kv' = [kv EXCEPT !.stage = "prefixed",
                        !.length = getCommonPrefix(kv.a, kv.b),
                        !.swapped = getCommonPrefix(kv.b, kv.a)]
    /\ UNCHANGED <<mainvars, vd, wf, hd>>

NextPrefix == PrefixCompute

SpecPrefix == InitPrefix /\ [][NextPrefix]_vars

\* a and b agree on their first n bytes
C12_Agree(a, b, n) == n <= Len(a) /\ n <= Len(b) /\ \A i \in 1..n : a[i] = b[i]
\* the length of the longest common leading run
C12_Longest(a, b) ==
    CHOOSE n \in 0..Min(Len(a), Len(b)) :
        C12_Agree(a, b, n) /\ ~C12_Agree(a, b, n + 1)

\* C12: getCommonPrefix returns the length of the longest common leading run
\* capped at 255, the same with the arguments swapped: 0 for an empty input,
\* the shorter length when one input is a prefix of the other, 255 when 255 or
\* more leading bytes are shared.
C12_CommonPrefix ==
    kv.stage = "prefixed" =>
        /\ kv.length = Min(C12_Longest(kv.a, kv.b), MaxPrefix)
        /\ kv.swapped = kv.length
        /\ (kv.a = <<>> \/ kv.b = <<>>) => kv.length = 0
        /\ (C12_Agree(kv.a, kv.b, Min(Len(kv.a), Len(kv.b))) /\ Len(kv.a) <= MaxPrefix)
              => kv.length = Min(Len(kv.a), Len(kv.b))
        /\ C12_Agree(kv.a, kv.b, MaxPrefix) => kv.length = MaxPrefix

C12_Witness ==
    /\ kv.stage = "prefixed"
    /\ Len(kv.a) > MaxPrefix /\ Len(kv.b) > Len(kv.a)
    /\ C12_Agree(kv.a, kv.b, Len(kv.a))
    /\ kv.length = MaxPrefix

\* the fields of the marshalled record kv.data, read by its layout: flag byte,
\* prefix-length byte if bit 0 is set, then length byte and bytes of key and value
C14_Flag == kv.data[1]
C14_KeyAt == IF C14_Flag % 2 = 1 THEN 3 ELSE 2
C14_KeyBytes == SubSeq(kv.data, C14_KeyAt + 1, C14_KeyAt + kv.data[C14_KeyAt])
C14_ValAt == C14_KeyAt + kv.data[C14_KeyAt] + 1
C14_ValBytes == SubSeq(kv.data, C14_ValAt + 1, C14_ValAt + kv.data[C14_ValAt])
C14_KeyFlag == (C14_Flag \div 2) % 2 = 1
C14_ValFlag == (C14_Flag \div 4) % 2 = 1
\* the key without the leading bytes it shares with the previous key
C14_Suffix ==
    SubSeq(kv.Key, Min(C12_Longest(kv.prevKey, kv.Key), MaxPrefix) + 1, Len(kv.Key))

\* C14: with a compressor each of KeyCompressed and ValueCompressed is set exactly
\* when the compressed field is strictly shorter than the field, the stored
\* bytes are the compressed form exactly when the flag is set, and without a
\* compressor neither flag is set.
C14_CompressionFlags ==
    kv.stage = "marshalled" =>
        /\ kv.compressor = "nil" => (~C14_KeyFlag /\ ~C14_ValFlag)
        /\ kv.compressor # "nil" =>
              /\ C14_KeyFlag <=> Len(Compress(C14_Suffix)) < Len(C14_Suffix)
              /\ C14_ValFlag <=> Len(Compress(kv.Value)) < Len(kv.Value)
        /\ C14_KeyBytes = IF C14_KeyFlag THEN Compress(C14_Suffix) ELSE C14_Suffix
        /\ C14_ValBytes = IF C14_ValFlag THEN Compress(kv.Value) ELSE kv.Value
        /\ Len(kv.data) = C14_ValAt + kv.data[C14_ValAt]

C14_Witness ==
    /\ kv.stage = "marshalled" /\ kv.compressor # "nil"
    /\ C14_KeyFlag /\ ~C14_ValFlag
    /\ Len(kv.Value) = 2 /\ Len(Compress(kv.Value)) = 2

(***************************************************************************)
(* SpecValidate: HeadPage.validate applied to a head page h over the bytes *)
(* data of a page 0 of MaxPageBytes bytes.                                 *)
(***************************************************************************)
PageBytes == {0, 97}
OtherWord == <<1, 1>>          \* a checksum that no region of the page has

Regions(d) == {SubSeq(d, i + 1, j) : i \in 0..Len(d), j \in 0..Len(d)}

InitValidate ==
    /\ IdleMain
    /\ kv = KVIdle
    /\ wf = WFIdle
    /\ hd = HDIdle
    /\ \E m \in {Magic, Magic + 1}, v \in {Version, Version + 1},
          pt \in 0..(MaxPageBytes + 1), ps \in 0..(MaxPageBytes + 1),
          d \in {t \in SeqsUpTo(PageBytes, MaxPageBytes) : Len(t) = MaxPageBytes} :
         \E c \in {ZeroWord, OtherWord} \cup {ChecksumIEEE(r) : r \in Regions(d)} :
           vd = [stage |-> "in",
                 h |-> [initHead(CompSnappy) EXCEPT !.magic = m, !.Version = v, !.Checksum = c,
                                                       !.ptr = pt, !.PageSize = ps],
                 data |-> d, result |-> "none"]

Validate ==
    /\ vd.stage = "in"
    /\ vd' = [vd EXCEPT !.stage = "validated", !.result = validate(vd.h, vd.data)]
    /\ UNCHANGED <<mainvars, kv, wf, hd>>

NextValidate == Validate

SpecValidate == InitValidate /\ [][NextValidate]_vars

ValidateError == {"wrong magic", "version mismatch", "checksum mismatch"}
\* bytes [ptr, PageSize) of page 0 exist
RegionInPage == vd.h.ptr <= vd.h.PageSize /\ vd.h.PageSize <= Len(vd.data)
RegionCRC == ChecksumIEEE(SubSeq(vd.data, vd.h.ptr + 1, vd.h.PageSize))

C9_Outcome ==
    vd.stage = "validated" =>
        /\ vd.h.magic # Magic => vd.result = "wrong magic"
        /\ (vd.h.magic = Magic /\ vd.h.Version # Version) => vd.result = "version mismatch"
        /\ (vd.h.Checksum # ZeroWord /\ RegionInPage /\ vd.h.Checksum # RegionCRC)
              => vd.result \in ValidateError
        /\ (vd.h.magic = Magic /\ vd.h.Version = Version /\ vd.h.Checksum = ZeroWord)
              => vd.result = "nil"

C9_Pure == vd'.h = vd.h /\ vd'.data = vd.data /\ UNCHANGED mainvars

\* C9: validate returns an error for a head page with another magic, another
\* version, or a non-zero checksum that is not the CRC-32 of bytes [ptr, PageSize)
\* of page 0; it returns nil for a zero checksum whatever the page holds; and it
\* changes neither the page nor the handle.
C9_Validation == []C9_Outcome /\ [][C9_Pure]_vars

C9_Witness ==
    /\ vd.stage = "validated"
    /\ vd.h.Checksum # ZeroWord /\ RegionInPage /\ vd.h.ptr < vd.h.PageSize
    /\ vd.result = "checksum mismatch"

\* ---------------------------------------------------------------------------
\* SpecWait: waitflock (compress.go 77-96) run by process 1 on an open
\* descriptor while process 2 takes and drops locks on the same file.
\* Time is counted in units no longer than the 50 ms sleep.
\* ---------------------------------------------------------------------------
MaxTimeout == 2
ElapsedCap == MaxTimeout + 2
AttemptCap == 3
Timeouts == -1..MaxTimeout
Waiter == 1
Other == 2

\* pkg/errors Wrap: nil stays nil
Wrap(e, msg) == IF e = "nil" THEN "nil" ELSE msg

\* compress.go 82: the deadline test, made from the second iteration on
timedOutAtDeadline(started, elapsed, timeout) == started /\ timeout > 0 /\ elapsed >= timeout

timedOut(started, elapsed, timeout) == started /\ timeout > 0 /\ elapsed > timeout

InitWait ==
    /\ disk = EmptyFile
    /\ fd \in {f \in [Procs -> {"closed", "none", "sh", "ex"}] :
                 /\ f[Waiter] = "none"
                 /\ f[Other] \in {"closed", "sh", "ex"}
                 /\ \A q \in Procs \ {Waiter, Other} : f[q] = "closed"}
    /\ leaked = [m \in LockModes |-> 0]
    /\ maps = [p \in Procs |-> 0]
    /\ db = [p \in Procs |-> NoDB]
    /\ pc = [p \in Procs |-> "idle"]
    /\ opt = [p \in Procs |-> DefaultOptions]
    /\ hs = [p \in Procs |-> "none"]
    /\ ret = [p \in Procs |-> "none"]
    /\ closeRet = [p \in Procs |-> "none"]
    /\ faulted = [p \in Procs |-> FALSE]
    /\ left = [p \in Procs |-> NoLeft]
    /\ osPageSize = DefaultPageSize
    /\ kv = KVIdle
    /\ vd = VDIdle
    /\ hd = HDIdle
    /\ \E ro \in BOOLEAN, to \in Timeouts :
          wf = [pc |-> "top", readOnly |-> ro, timeout |-> to, started |-> FALSE,
                elapsed |-> 0, attempts |-> 0, last |-> "none", ret |-> "none"]

waitvars == <<disk, leaked, maps, db, pc, opt, hs, ret, closeRet, faulted, left, kv, vd,
              osPageSize, hd>>

\* compress.go 80-84: top of the loop
WaitTop ==
    /\ wf.pc = "top"
    /\ IF ~wf.started
       THEN wf' = [wf EXCEPT !.started = TRUE, !.elapsed = 0, !.pc = "flock"]
       ELSE IF timedOut(wf.started, wf.elapsed, wf.timeout)
            THEN wf' = [wf EXCEPT !.pc = "done", !.ret = "timeout"]
            ELSE wf' = [wf EXCEPT !.pc = "flock"]
    /\ UNCHANGED <<waitvars, fd>>

\* compress.go 85-88: one non-blocking attempt
WaitFlock(f) ==
    /\ wf.pc = "flock"
    /\ LET e == IF f = "flock" THEN "flock failed: unknown error"
                ELSE flock(Waiter, wf.readOnly)
           n == Min(wf.attempts + 1, AttemptCap)
       IN IF e # "ErrWriteByOther"
          THEN /\ wf' = [wf EXCEPT !.pc = "done", !.attempts = n, !.last = e,
                                   !.ret = Wrap(e, "flock failed: unknown error")]
               /\ fd' = IF e = "nil"
                        THEN [fd EXCEPT ![Waiter] = IF wf.readOnly THEN "sh" ELSE "ex"]
                        ELSE fd
          ELSE /\ wf' = [wf EXCEPT !.pc = "sleep", !.attempts = n, !.last = e]
               /\ fd' = fd
    /\ UNCHANGED waitvars

\* compress.go 89: time.Sleep(50 * time.Millisecond) lasts at least that long
WaitSleep(d) ==
    /\ wf.pc = "sleep"
    /\ wf' = [wf EXCEPT !.pc = "top", !.elapsed = Min(wf.elapsed + d, ElapsedCap)]
    /\ UNCHANGED <<waitvars, fd>>

\* the clock runs between any two steps of the loop
WaitTick ==
    /\ wf.pc \in {"flock", "sleep", "top"}
    /\ wf.started
    /\ wf.elapsed < ElapsedCap
    /\ wf' = [wf EXCEPT !.elapsed = wf.elapsed + 1]
    /\ UNCHANGED <<waitvars, fd>>

\* the other process locks the file when the kernel allows it
OtherFlock(ro) ==
    /\ fd[Other] = "closed"
    /\ flock(Other, ro) = "nil"
    /\ fd' = [fd EXCEPT ![Other] = IF ro THEN "sh" ELSE "ex"]
    /\ UNCHANGED <<waitvars, wf>>

\* the other process drops its lock (funlock or exit)
OtherFunlock ==
    /\ fd[Other] \in LockModes
    /\ fd' = [fd EXCEPT ![Other] = "closed"]
    /\ UNCHANGED <<waitvars, wf>>

WaitStep == WaitTop \/ (\E f \in {"none", "flock"} : WaitFlock(f)) \/ (\E d \in 1..ElapsedCap : WaitSleep(d))

NextWait ==
    \/ WaitTop
    \/ \E f \in {"none", "flock"} : WaitFlock(f)
    \/ \E d \in 1..ElapsedCap : WaitSleep(d)
    \/ WaitTick
    \/ \E ro \in BOOLEAN : OtherFlock(ro)
    \/ OtherFunlock

\* the waiting goroutine keeps running and its sleep returns
SpecWait == InitWait /\ [][NextWait]_vars /\ WF_vars(WaitStep)

C15_Returned == wf.pc = "done"

C15_Safe ==
    /\ (C15_Returned /\ wf.ret = "nil") =>
          /\ wf.last = "nil"
          /\ fd[Waiter] = (IF wf.readOnly THEN "sh" ELSE "ex")
          /\ fd[Other] # "ex"
          /\ (~wf.readOnly => fd[Other] \notin LockModes)
    /\ wf.ret = "timeout" =>
          /\ wf.timeout > 0
          /\ wf.elapsed > wf.timeout
          /\ wf.attempts >= 1
          /\ wf.last = "ErrWriteByOther"
    /\ wf.timeout <= 0 => wf.ret # "timeout"
    /\ wf.pc = "sleep" => wf.last = "ErrWriteByOther"
    /\ (C15_Returned /\ wf.last \notin {"nil", "ErrWriteByOther"}) =>
          wf.ret = "flock failed: unknown error"

\* an attempt that is not refused for contention ends the call in that step,
\* and only a refused attempt is followed by another one
C15_Attempt ==
    (wf.pc = "flock" /\ wf'.attempts # wf.attempts) =>
        /\ (wf'.last = "ErrWriteByOther") = (wf'.pc = "sleep")
        /\ (wf'.last # "ErrWriteByOther") = (wf'.pc = "done")
        /\ (wf'.last = "ErrWriteByOther") =
              (flock(Waiter, wf.readOnly) = "ErrWriteByOther" /\ wf'.last # "flock failed: unknown error")

\* C15: waitflock retries the non-blocking attempt only on contention; it
\* returns nil only with the lock held, returns any other flock error in the
\* step of the attempt, returns "timeout" only for a positive timeout, after
\* more than the timeout has passed and after at least one refused attempt;
\* with a positive timeout it always returns, and with a timeout of zero it
\* never returns "timeout" and returns once the lock stays free
C15_BoundedWait ==
    /\ []C15_Safe
    /\ [][C15_Attempt]_vars
    /\ [](wf.timeout > 0 => <>C15_Returned)
    /\ (<>[](fd[Other] = "closed") => <>C15_Returned)
    /\ ([](fd[Other] = "ex") /\ wf.timeout > 0 => <>(C15_Returned /\ wf.ret # "nil"))

C15_Witness ==
    /\ C15_Returned
    /\ wf.ret = "timeout"
    /\ wf.attempts >= 2
    /\ wf.elapsed = wf.timeout + 1

\* ---------------------------------------------------------------------------
\* SpecHandle: the handle process 1 got from Open on a new file, used from
\* several goroutines: grow, mmap, munmap and Close on the handle, and
\* readers that hold the read side of db.mmaplock.
\* ---------------------------------------------------------------------------
NumReaders == 1
Handle == 1
Readers == 1..NumReaders
GrowTargets == {0, 2 * DefaultPageSize, 40000, 100000}
MinSizes == {0, 200000}

\* os.File.Truncate(sz): bytes beyond sz are lost, new bytes are zero
truncate(dk, sz) ==
    [dk EXCEPT !.size = sz,
               !.head = IF sz >= Min(dk.size, HeadPageSize) THEN @ ELSE NoHead,
               !.page1Flag = IF sz > dk.head.PageSize /\ dk.size > dk.head.PageSize THEN @ ELSE 0]

\* DB.grow with the tracked size stored before the sync was checked
growTracksBeforeSync(d, dk, noGrowSync, sz, f) ==
    IF sz <= d.filesz
    THEN [db |-> d, disk |-> dk, err |-> "nil", trunc |-> "none", sync |-> "none"]
    ELSE LET n == IF d.datasz < d.allocSize THEN d.datasz ELSE sz + d.allocSize
         IN IF ~noGrowSync /\ ~d.readOnly
            THEN IF f = "truncate"
                 THEN [db |-> d, disk |-> dk, err |-> "file resize error",
                       trunc |-> "failed", sync |-> "none"]
                 ELSE IF f = "sync"
                 THEN [db |-> [d EXCEPT !.filesz = n], disk |-> truncate(dk, n),
                       err |-> "file sync error", trunc |-> "ok", sync |-> "failed"]
                 ELSE [db |-> [d EXCEPT !.filesz = n], disk |-> truncate(dk, n),
                       err |-> "nil", trunc |-> "ok", sync |-> "ok"]
            ELSE [db |-> [d EXCEPT !.filesz = n], disk |-> dk, err |-> "nil",
                  trunc |-> "none", sync |-> "none"]

\* DB.grow(sz): f the system call that fails, if any
grow(d, dk, noGrowSync, sz, f) ==
    IF sz <= d.filesz
    THEN [db |-> d, disk |-> dk, err |-> "nil", trunc |-> "none", sync |-> "none"]
    ELSE LET n == IF d.datasz < d.allocSize THEN d.datasz ELSE sz + d.allocSize
         IN IF ~noGrowSync /\ ~d.readOnly
            THEN IF f = "truncate"
                 THEN [db |-> d, disk |-> dk, err |-> "file resize error",
                       trunc |-> "failed", sync |-> "none"]
                 ELSE IF f = "sync"
                 THEN [db |-> d, disk |-> truncate(dk, n),
                       err |-> "file sync error", trunc |-> "ok", sync |-> "failed"]
                 ELSE [db |-> [d EXCEPT !.filesz = n], disk |-> truncate(dk, n),
                       err |-> "nil", trunc |-> "ok", sync |-> "ok"]
            ELSE [db |-> [d EXCEPT !.filesz = n], disk |-> dk, err |-> "nil",
                  trunc |-> "none", sync |-> "none"]

\* the handle and the file as a fault-free Open leaves them
OpenedDisk == WrittenFile(initHead(DefaultOptions.Compression), 2 * initPageSize)

OpenedDB(ro, minsz) ==
    LET d == [NoDB EXCEPT !.opened = TRUE, !.readOnly = ro, !.path = "path", !.file = "fd",
                          !.writeAt = TRUE, !.pageSize = initPageSize,
                          !.compression = DefaultOptions.Compression,
                          !.allocSize = AllocPages * initPageSize]
        r == DBmmap(d, 0, OpenedDisk, minsz, "none")
    IN [r.db EXCEPT !.compressor = compressorOf(r.db.compression),
                    !.decompressor = decompressorOf(r.db.compression)]

NoCall == [op |-> "none", target |-> 0, err |-> "nil", filesz0 |-> 0, datasz0 |-> 0,
           disksz0 |-> 0, trunc |-> "none", sync |-> "none", unmapped |-> FALSE,
           writer |-> FALSE, readers |-> {}]

\* the call that is being recorded, with the state it starts from
Call(op, target) ==
    [NoCall EXCEPT !.op = op, !.target = target, !.filesz0 = db[Handle].filesz,
                   !.datasz0 = db[Handle].datasz, !.disksz0 = disk.size,
                   !.writer = hd.mmaplock.writer, !.readers = hd.mmaplock.readers]

InitHandle ==
    /\ osPageSize \in HostPageSizes
    /\ disk = OpenedDisk
    /\ \E ro \in BOOLEAN, minsz \in InitialMmapSizes :
          /\ db = [p \in Procs |-> IF p = Handle THEN OpenedDB(ro, minsz) ELSE NoDB]
          /\ fd = [p \in Procs |-> IF p = Handle THEN (IF ro THEN "sh" ELSE "ex") ELSE "closed"]
    /\ leaked = [m \in LockModes |-> 0]
    /\ maps = [p \in Procs |-> IF p = Handle THEN 1 ELSE 0]
    /\ pc = [p \in Procs |-> "idle"]
    /\ opt = [p \in Procs |-> DefaultOptions]
    /\ hs = [p \in Procs |-> IF p = Handle THEN "open" ELSE "none"]
    /\ ret = [p \in Procs |-> IF p = Handle THEN "nil" ELSE "none"]
    /\ closeRet = [p \in Procs |-> "none"]
    /\ faulted = [p \in Procs |-> FALSE]
    /\ left = [p \in Procs |-> NoLeft]
    /\ kv = KVIdle
    /\ vd = VDIdle
    /\ wf = WFIdle
    /\ \E ngs \in BOOLEAN :
          hd = [mmaplock |-> [writer |-> FALSE, readers |-> {}], NoGrowSync |-> ngs,
                minsz |-> 0, last |-> NoCall]

handlevars == <<leaked, pc, opt, ret, closeRet, faulted, left, kv, vd, osPageSize, wf>>

\* db.go 370-399
HGrow(sz, f) ==
    /\ hs[Handle] = "open"
    /\ LET r == grow(db[Handle], disk, hd.NoGrowSync, sz, f)
       IN /\ f # "none" => r.err # "nil"
          /\ db' = [db EXCEPT ![Handle] = r.db]
          /\ disk' = r.disk
          /\ hd' = [hd EXCEPT !.last = [Call("grow", sz) EXCEPT !.err = r.err,
                                            !.trunc = r.trunc, !.sync = r.sync]]
    /\ UNCHANGED <<handlevars, fd, maps, hs>>

\* db.go 404: db.mmaplock.Lock()
HMmapLock(minsz) ==
    /\ hs[Handle] = "open"
    /\ ~hd.mmaplock.writer
    /\ hd.mmaplock.readers = {}
    /\ hd' = [hd EXCEPT !.mmaplock.writer = TRUE, !.minsz = minsz]
    /\ UNCHANGED <<handlevars, disk, fd, maps, db, hs>>

\* db.go 405-445: the body of DB.mmap and the deferred Unlock
HMmap(f) ==
    /\ hd.mmaplock.writer
    /\ LET r == DBmmap(db[Handle], maps[Handle], disk, hd.minsz, f)
           reached == r.err \notin {"mmap stat error", "file size too small",
                                     "mmap too large", "panic"}
       IN /\ f # "none" => r.err # "nil"
          /\ r.maps <= MaxLeaks + 1
          /\ db' = [db EXCEPT ![Handle] = r.db]
          /\ maps' = [maps EXCEPT ![Handle] = r.maps]
          /\ hd' = [hd EXCEPT !.mmaplock.writer = FALSE,
                              !.last = [Call("mmap", hd.minsz) EXCEPT !.err = r.err,
                                            !.unmapped = db[Handle].dataref /\ reached]]
    /\ UNCHANGED <<handlevars, disk, fd, hs>>

\* db.go 449-454
HMunmap(f) ==
    /\ hs[Handle] = "open"
    /\ LET u == munmap(db[Handle], maps[Handle], f = "munmap")
       IN /\ f # "none" => u.err # "nil"
          /\ db' = [db EXCEPT ![Handle] = u.db]
          /\ maps' = [maps EXCEPT ![Handle] = u.maps]
          /\ hd' = [hd EXCEPT !.last = [Call("munmap", 0) EXCEPT !.err = u.err,
                                            !.unmapped = db[Handle].dataref]]
    /\ UNCHANGED <<handlevars, disk, fd, hs>>

\* db.go 277-288: Close takes db.mmaplock.RLock() and calls close
HClose(cf) ==
    /\ hs[Handle] = "open"
    /\ ~hd.mmaplock.writer
    /\ LET c == close(db[Handle], fd[Handle], maps[Handle], cf)
       IN /\ cf # "none" => c.err # "nil"
          /\ db' = [db EXCEPT ![Handle] = c.db]
          /\ fd' = [fd EXCEPT ![Handle] = c.fd]
          /\ maps' = [maps EXCEPT ![Handle] = c.maps]
          /\ hd' = [hd EXCEPT !.last = [Call("Close", 0) EXCEPT !.err = c.err,
                                            !.unmapped = db[Handle].opened /\ db[Handle].dataref]]
    /\ hs' = [hs EXCEPT ![Handle] = "closed"]
    /\ UNCHANGED <<handlevars, disk>>

\* a goroutine takes the read side of db.mmaplock
RLock(t) ==
    /\ ~hd.mmaplock.writer
    /\ t \notin hd.mmaplock.readers
    /\ hd' = [hd EXCEPT !.mmaplock.readers = @ \cup {t}]
    /\ UNCHANGED <<handlevars, disk, fd, maps, db, hs>>

RUnlock(t) ==
    /\ t \in hd.mmaplock.readers
    /\ hd' = [hd EXCEPT !.mmaplock.readers = @ \ {t}]
    /\ UNCHANGED <<handlevars, disk, fd, maps, db, hs>>

NextHandle ==
    \/ \E sz \in GrowTargets, f \in {"none", "truncate", "sync"} : HGrow(sz, f)
    \/ \E minsz \in MinSizes : HMmapLock(minsz)
    \/ \E f \in {"none", "stat", "munmap", "mmap", "madvise"} : HMmap(f)
    \/ \E f \in {"none", "munmap"} : HMunmap(f)
    \/ \E cf \in {"none", "munmap", "close"} : HClose(cf)
    \/ \E t \in Readers : RLock(t)
    \/ \E t \in Readers : RUnlock(t)

SpecHandle == InitHandle /\ [][NextHandle]_vars

\* C16: every step that unmaps or replaces the mapping of the handle is made
\* with the write side of db.mmaplock held and while no goroutine holds the
\* read side
C16_UnmapUnderWriteLock ==
    hd.last.unmapped => (hd.last.writer /\ hd.last.readers = {})

C17_Grew == hd.last.op = "grow" /\ hd.last.err = "nil" /\ hd.last.target > hd.last.filesz0

\* C17: a successful grow(target) with target above the tracked file size
\* leaves the file size at target when the mapped size is below
\* AllocPages * pageSize, and at target + AllocPages * pageSize otherwise
C17_GrowSize ==
    C17_Grew =>
        LET want == IF hd.last.datasz0 < AllocPages * db[Handle].pageSize
                    THEN hd.last.target
                    ELSE hd.last.target + (AllocPages * db[Handle].pageSize)
        IN /\ db[Handle].filesz = want
           /\ (hd.last.trunc = "ok" => disk.size = want)

C18_Resized == hd.last.op \in {"grow", "mmap", "munmap"}

\* C18: no grow, mmap or munmap call on the open handle lowers the size of
\* the file or the tracked file size, and grow(target) with target at or
\* below the tracked size changes neither
C18_Monotonic ==
    C18_Resized =>
        /\ disk.size >= hd.last.disksz0
        /\ db[Handle].filesz >= hd.last.filesz0
        /\ (hd.last.op = "grow" /\ hd.last.target <= hd.last.filesz0) =>
              (disk.size = hd.last.disksz0 /\ db[Handle].filesz = hd.last.filesz0
               /\ hd.last.err = "nil")

C19_Synced == ~hd.NoGrowSync /\ ~db[Handle].readOnly

C22_Remapped == hd.last.op \in {"mmap", "munmap", "Close"}

\* C22: after every mmap, munmap and Close on the handle, failed or not,
\* db.head points into a mapping only while that mapping is the live one of
\* the handle, and the handle has at most one live mapping of the file
C22_HeadInLiveMapping ==
    C22_Remapped =>
        /\ db[Handle].head = "mapped" => db[Handle].dataref
        /\ maps[Handle] <= 1


MapSizeGiBs == {-1, 0, 1, 2, maxMapSizeGiB - 1, maxMapSizeGiB}
MapSizeRems == {0, 1, 2^MinMapShift, 2^MinMapShift + 1, 40000, GiB - DefaultPageSize, GiB - 1}
MapPageSizes == {0, DefaultPageSize, 4 * DefaultPageSize, maxPageSize}

InitMapSize ==
    /\ IdleMain
    /\ vd = VDIdle
    /\ wf = WFIdle
    /\ hd = HDIdle
    /\ \E g \in MapSizeGiBs, r \in MapSizeRems, ps \in MapPageSizes :
          kv = [stage |-> "size", size |-> <<g, r>>, pageSize |-> ps,
                out |-> [sz |-> <<0, 0>>, err |-> "none"]]

MapSize ==
    /\ kv.stage = "size"
    /\ kv' = [kv EXCEPT !.stage = "mapsize", !.out = mmapSize(kv.size, kv.pageSize)]
    /\ UNCHANGED <<mainvars, vd, wf, hd>>

NextMapSize == MapSize

SpecMapSize == InitMapSize /\ [][NextMapSize]_vars

C20_Leq(a, b) == a[1] < b[1] \/ (a[1] = b[1] /\ a[2] <= b[2])

C20_Max == <<maxMapSizeGiB - 1, GiB - 1>>

C20_OneGiB == <<1, 0>>

C20_PageMultiple(sz, ps) == (MulMod(sz[1], GiB % ps, ps) + (sz[2] % ps)) % ps = 0

C20_PowerOfTwo(sz) == \E k \in MinMapShift..MaxMapShift : sz = ToSize(2^k)

\* the smallest GiB count that covers size
C20_Steps(size) == IF size[2] > 0 THEN size[1] + 1 ELSE size[1]

\* C20: mmapSize returns, for a size of at most 1 GB, the smallest power of
\* two that is >= the size and >= 32 KB; for a larger size up to maxMapSize,
\* the size rounded up to whole GiB and then up to a multiple of the page
\* size; an error for a size above maxMapSize; and every result it returns
\* is >= the size, <= maxMapSize and, above 1 GB, a multiple of the page size
C20_MapSize ==
    kv.stage = "mapsize" =>
        LET size == kv.size
            ps == kv.pageSize
            r == kv.out
        IN IF C20_Leq(size, C20_OneGiB)
           THEN /\ r.err = "nil"
                /\ C20_PowerOfTwo(r.sz)
                /\ C20_Leq(size, r.sz)
                /\ \A k \in MinMapShift..MaxMapShift :
                      C20_Leq(size, ToSize(2^k)) => C20_Leq(r.sz, ToSize(2^k))
           ELSE IF ~C20_Leq(size, C20_Max)
           THEN r.err \notin {"nil", "panic"}
           ELSE /\ r.err = "nil"
                /\ C20_Leq(size, r.sz)
                /\ C20_Leq(r.sz, C20_Max)
                /\ ps > 0 => /\ C20_PageMultiple(r.sz, ps)
                             /\ r.sz[1] = C20_Steps(size)
                             /\ r.sz[2] < ps

\* ---------------------------------------------------------------------------
\* SpecPage: DB.page(id) (db.go 498-505).  PageId is uint32: ids and offsets
\* are <<high 16 bits, low 16 bits>> words, and the product id * pageSize is
\* kept in three 16-bit limbs so that the bits the uint32 drops can be seen.
\* ---------------------------------------------------------------------------
Half == 65536

\* x * y for x, y < 2^16, as <<high 16 bits, low 16 bits>>
Mul16(x, y) ==
    LET a == x * (y \div 256)
        b == x * (y % 256)
        low == ((a % 256) * 256) + b
    IN <<((a \div 256) + (low \div Half)) % Half, low % Half>>

\* id * pageSize over the integers, as <<bits 32.., bits 16..31, bits 0..15>>
Product(id, pageSize) ==
    LET l == Mul16(id[2], pageSize)
        h == Mul16(id[1], pageSize)
        mid == h[2] + l[1]
    IN <<h[1] + (mid \div Half), mid % Half, l[2]>>

\* pos := id * PageId(db.pageSize), in uint32
page(id, pageSize) ==
    IF id = <<0, 0>> THEN [panic |-> TRUE, pos |-> <<0, 0>>]
    ELSE LET w == Product(id, pageSize)
         IN [panic |-> FALSE, pos |-> <<w[2], w[3]>>]

PageIdHighs == {0, 1, 15, 16, 17, Half - 1}
PageIdLows == {0, 1, 2, Half - 1}

InitPage ==
    /\ IdleMain
    /\ vd = VDIdle
    /\ wf = WFIdle
    /\ hd = HDIdle
    /\ \E h \in PageIdHighs, l \in PageIdLows, ps \in MapPageSizes :
          kv = [stage |-> "id", id |-> <<h, l>>, pageSize |-> ps,
                out |-> [panic |-> FALSE, pos |-> <<0, 0>>]]

PageOf ==
    /\ kv.stage = "id"
    /\ kv' = [kv EXCEPT !.stage = "page", !.out = page(kv.id, kv.pageSize)]
    /\ UNCHANGED <<mainvars, vd, wf, hd>>

NextPage == PageOf

SpecPage == InitPage /\ [][NextPage]_vars

\* C21: page(0) panics; for every id >= 1, whose page always lies below
\* maxMapSize since id < 2^32 and pageSize < 2^16, page(id) returns the
\* offset id * pageSize with no bits lost
C21_PageOffset ==
    kv.stage = "page" =>
        IF kv.id = <<0, 0>> THEN kv.out.panic
        ELSE /\ ~kv.out.panic
             /\ <<0, kv.out.pos[1], kv.out.pos[2]>> = Product(kv.id, kv.pageSize)

\* ---------------------------------------------------------------------------
\* SpecCompare: BytesComparator (unnamed/part_002 7-23) applied to the pairs
\* of three byte strings.
\* ---------------------------------------------------------------------------
MaxCmpLen == 2
CmpBytes == {0, 127, 128, 255}

\* a byte read as int8
Signed(x) == IF x >= 128 THEN x - 256 ELSE x

RECURSIVE compareSignedFrom(_, _, _, _)
compareSignedFrom(a, b, i, n) ==
    IF i > n THEN (IF Len(a) > Len(b) THEN 1 ELSE IF Len(a) < Len(b) THEN -1 ELSE 0)
    ELSE IF Signed(a[i]) < Signed(b[i]) THEN -1
    ELSE IF Signed(a[i]) > Signed(b[i]) THEN 1
    ELSE compareSignedFrom(a, b, i + 1, n)

BytesComparatorSigned(a, b) == compareSignedFrom(a, b, 1, Min(Len(a), Len(b)))

\* the loop from index i (1-based) and the length comparison after it
RECURSIVE compareFrom(_, _, _, _)
compareFrom(a, b, i, n) ==
    IF i > n THEN (IF Len(a) > Len(b) THEN 1 ELSE IF Len(a) < Len(b) THEN -1 ELSE 0)
    ELSE IF a[i] < b[i] THEN -1
    ELSE IF a[i] > b[i] THEN 1
    ELSE compareFrom(a, b, i + 1, n)

BytesComparator(a, b) == compareFrom(a, b, 1, Min(Len(a), Len(b)))

InitCompare ==
    /\ IdleMain
    /\ vd = VDIdle
    /\ wf = WFIdle
    /\ hd = HDIdle
    /\ \E a \in SeqsUpTo(CmpBytes, MaxCmpLen), b \in SeqsUpTo(CmpBytes, MaxCmpLen),
          c \in SeqsUpTo(CmpBytes, MaxCmpLen) :
           kv = [stage |-> "keys", a |-> a, b |-> b, c |-> c,
                 ab |-> 0, ba |-> 0, bc |-> 0, ac |-> 0]

Compare ==
    /\ kv.stage = "keys"
    /\ kv' = [kv EXCEPT !.stage = "compared",
                        !.ab = BytesComparator(kv.a, kv.b),
                        !.ba = BytesComparator(kv.b, kv.a),
                        !.bc = BytesComparator(kv.b, kv.c),
                        !.ac = BytesComparator(kv.a, kv.c)]
    /\ UNCHANGED <<mainvars, vd, wf, hd>>

NextCompare == Compare

SpecCompare == InitCompare /\ [][NextCompare]_vars

\* the indexes at which both keys have a byte and the bytes differ
C25_Differ(a, b) == {i \in 1..Min(Len(a), Len(b)) : a[i] # b[i]}

C25_First(a, b) == CHOOSE i \in C25_Differ(a, b) : \A j \in C25_Differ(a, b) : i <= j

C25_ProperPrefix(a, b) == Len(a) < Len(b) /\ SubSeq(b, 1, Len(a)) = a

\* C25: BytesComparator returns 0 exactly for equal keys, otherwise -1 or 1
\* by the first differing byte taken as a value in 0..255, puts a proper
\* prefix before the longer key, and is antisymmetric and transitive
C25_ByteOrder ==
    kv.stage = "compared" =>
        /\ kv.ab \in {-1, 0, 1}
        /\ (kv.ab = 0) = (kv.a = kv.b)
        /\ C25_Differ(kv.a, kv.b) # {} =>
              kv.ab = (IF kv.a[C25_First(kv.a, kv.b)] < kv.b[C25_First(kv.a, kv.b)]
                       THEN -1 ELSE 1)
        /\ C25_ProperPrefix(kv.a, kv.b) => kv.ab = -1
        /\ kv.ab = -kv.ba
        /\ (kv.ab <= 0 /\ kv.bc <= 0) => kv.ac <= 0
        /\ (kv.ab < 0 /\ kv.bc <= 0) => kv.ac < 0
        /\ (kv.ab <= 0 /\ kv.bc < 0) => kv.ac < 0

C25_Witness ==
    /\ kv.stage = "compared"
    /\ kv.a = <<127>>
    /\ kv.b = <<127, 0>>
    /\ kv.c = <<128>>
    /\ kv.ab = -1
    /\ kv.bc = -1
    /\ kv.ac = -1

=============================================================================
